---- MODULE Spec2Model ----
(***************************************************************************)
(* Model of the BPFtrace session orchestrator                              *)
(* (src/backend/bpftrace_orchestrator.py).  Each request thread of the     *)
(* Flask application runs one execute_* call against the single shared     *)
(* BPFtraceOrchestrator; the calls interleave at the points where they     *)
(* touch the shared session table (active_traces), the wall clock and the  *)
(* output directory.                                                       *)
(***************************************************************************)
EXTENDS Integers, Sequences, FiniteSets, TLC

\* ---------------------------------------------------------------- bounds
\* the wall clock takes the values 0..MaxClock (ticks of datetime.now())
MaxClock == 2
\* clock ticks inside one second of strftime('%Y%m%d_%H%M%S')
TicksPerSecond == 2
\* lines the remote command prints at most
MaxLines == 1

\* ---------------------------------------------------------------- inputs
\* the request threads that each serve one execute_* call
Calls == {"c1", "c2"}
Devices == {"d1"}
CustomNames == {"t"}
\* the execute_*_trace wrappers exercised (all three share one structure)
WrapperEntries == {"memory"}
Lines == {"e\n"}
\* default of the duration parameter
DefaultDuration == 60

\* what a call is asked to do: the public entry point and its arguments
Requests ==
    [entry : WrapperEntries, device_id : Devices, arg : {""}]
    \cup [entry : {"custom"}, device_id : Devices, arg : CustomNames]

VARIABLES
    now,            \* the wall clock read by datetime.now()
    active_traces,  \* self.active_traces: trace_id -> metadata record
    files,          \* the output directory: path -> content
    pc,             \* where each call stands
    req,            \* the request each call serves
    output_file,    \* local output_file of execute_bpftrace
    trace_id,       \* local trace_id of execute_bpftrace
    output_lines,   \* local output_lines of _run_command_on_device
    run_result,     \* (success, output) returned by _run_command_on_device
    ret,            \* the dictionary the call returned
    query,          \* the last query of the boundary layer and its answer
    exec,           \* one run of _run_command_on_device against the clock
    an              \* one analysis request: the trace file and the result

\* the state of the parts a specification leaves alone
aux == <<query, exec, an>>

vars == <<now, active_traces, files, pc, req, output_file, trace_id,
          output_lines, run_result, ret, query, exec, an>>

NoRequest == [entry |-> "", device_id |-> "", arg |-> ""]
NoResult == [returned |-> FALSE]
NoRun == [ended |-> FALSE]
NoQuery == [op |-> "none"]
NoExec == [pc |-> "none"]
NoAnalysis == [op |-> "none"]

\* ---------------------------------------------------------------- helpers
\* trace_name the entry point passes to execute_bpftrace
TraceName(r) ==
    CASE r.entry = "syscall" ->
            "syscall_trace_" \o (IF r.arg = "" THEN "all" ELSE r.arg)
      [] r.entry = "file_access" -> "file_access_trace"
      [] r.entry = "memory" -> "memory_trace"
      [] OTHER -> r.arg

\* f"{trace_name}_{device_id}_{now:%Y%m%d_%H%M%S}.json": second resolution
OutputFileName(trace_name, device_id, t) ==
    trace_name \o "_" \o device_id \o "_"
        \o ToString(t \div TicksPerSecond) \o ".json"

\* f"{device_id}_{trace_name}_{datetime.now().timestamp()}"
TraceId(device_id, trace_name, t) ==
    device_id \o "_" \o trace_name \o "_" \o ToString(t)

\* ''.join(output_lines)
RECURSIVE Join(_)
Join(ls) == IF ls = <<>> THEN "" ELSE Head(ls) \o Join(Tail(ls))

\* dict assignment d[k] = v
DictSet(d, k, v) == (k :> v) @@ d

\* the error dictionary of execute_bpftrace
ErrorDict(r, msg) ==
    [returned |-> TRUE, success |-> FALSE, error |-> msg,
     trace_name |-> TraceName(r), device_id |-> r.device_id]

\* dict.get(trace_id): the record, or None
None == [none |-> TRUE]
\* what a handler sees when a lookup raises
KeyError == [raised |-> "KeyError"]
\* a lookup that subscripts the table instead of using dict.get
get_trace_result_subscript(id) ==
    IF id \in DOMAIN active_traces THEN active_traces[id] ELSE KeyError
get_trace_result(id) ==
    IF id \in DOMAIN active_traces THEN active_traces[id] ELSE None

\* list(self.active_traces.values())
list_active_traces == {active_traces[id] : id \in DOMAIN active_traces}

\* ---------------------------------------------------------------- initial state
Init ==
    /\ now = 0
    /\ active_traces = <<>>
    /\ files = <<>>
    /\ pc = [c \in Calls |-> "idle"]
    /\ req = [c \in Calls |-> NoRequest]
    /\ output_file = [c \in Calls |-> ""]
    /\ trace_id = [c \in Calls |-> ""]
    /\ output_lines = [c \in Calls |-> <<>>]
    /\ run_result = [c \in Calls |-> NoRun]
    /\ ret = [c \in Calls |-> NoResult]
    /\ query = NoQuery
    /\ exec = NoExec
    /\ an = NoAnalysis

\* ---------------------------------------------------------------- actions
\* the wall clock advances
Tick ==
    /\ now < MaxClock
    /\ now' = now + 1
    /\ UNCHANGED <<aux, active_traces, files, pc, req, output_file, trace_id,
                   output_lines, run_result, ret>>

\* execute_syscall_trace / execute_file_access_trace / execute_memory_trace:
\* os.path.exists on the bundled script, then execute_bpftrace
ExecuteWrapper(c, r, exists) ==
    /\ pc[c] = "idle"
    /\ r.entry # "custom"
    /\ req' = [req EXCEPT ![c] = r]
    /\ IF exists
         THEN /\ pc' = [pc EXCEPT ![c] = "check"]
              /\ ret' = ret
         ELSE /\ pc' = [pc EXCEPT ![c] = "done"]
              /\ ret' = [ret EXCEPT ![c] =
                    [returned |-> TRUE, success |-> FALSE,
                     error |-> "Trace script not found"]]
    /\ UNCHANGED <<aux, now, active_traces, files, output_file, trace_id,
                   output_lines, run_result>>

\* execute_bpftrace called directly with a caller-chosen trace_name
ExecuteCustom(c, r) ==
    /\ pc[c] = "idle"
    /\ r.entry = "custom"
    /\ req' = [req EXCEPT ![c] = r]
    /\ pc' = [pc EXCEPT ![c] = "check"]
    /\ UNCHANGED <<aux, now, active_traces, files, output_file, trace_id,
                   output_lines, run_result, ret>>

\* execute_bpftrace: if not os.path.exists(script_path): return error
CheckScript(c, exists) ==
    /\ pc[c] = "check"
    /\ IF exists
         THEN /\ pc' = [pc EXCEPT ![c] = "push"]
              /\ ret' = ret
         ELSE /\ pc' = [pc EXCEPT ![c] = "done"]
              /\ ret' = [ret EXCEPT ![c] =
                    ErrorDict(req[c], "Script not found")]
    /\ UNCHANGED <<aux, now, active_traces, files, req, output_file, trace_id,
                   output_lines, run_result>>

\* _push_script_to_device: True only when adb push exits with 0
PushOutcomes == {"ok", "nonzero", "exception", "timeout"}
PushOk(outcome) == outcome = "ok"

\* execute_bpftrace: push the script, return the error dictionary on failure
PushScript(c, outcome) ==
    /\ pc[c] = "push"
    /\ IF PushOk(outcome)
         THEN /\ pc' = [pc EXCEPT ![c] = "build"]
              /\ ret' = ret
         ELSE /\ pc' = [pc EXCEPT ![c] = "done"]
              /\ ret' = [ret EXCEPT ![c] =
                    ErrorDict(req[c], "Failed to push script to device")]
    /\ UNCHANGED <<aux, now, active_traces, files, req, output_file, trace_id,
                   output_lines, run_result>>

\* execute_bpftrace: output_file = output_dir / f"{trace_name}_{device_id}_..."
BuildCommand(c) ==
    /\ pc[c] = "build"
    /\ output_file' = [output_file EXCEPT ![c] =
            OutputFileName(TraceName(req[c]), req[c].device_id, now)]
    /\ pc' = [pc EXCEPT ![c] = "register"]
    /\ UNCHANGED <<aux, now, active_traces, files, req, trace_id,
                   output_lines, run_result, ret>>

\* the metadata record stored under trace_id
NewTrace(r, file, t) ==
    [device_id |-> r.device_id, trace_name |-> TraceName(r),
     output_file |-> file, status |-> "running", start_time |-> t,
     duration |-> DefaultDuration]

\* execute_bpftrace: trace_id = ...; self.active_traces[trace_id] = {...}
StoreMetadata(c) ==
    /\ pc[c] = "register"
    /\ LET id == TraceId(req[c].device_id, TraceName(req[c]), now)
       IN /\ trace_id' = [trace_id EXCEPT ![c] = id]
          /\ active_traces' =
                DictSet(active_traces, id, NewTrace(req[c], output_file[c], now))
    /\ pc' = [pc EXCEPT ![c] = "run"]
    /\ UNCHANGED <<aux, now, files, req, output_file, output_lines,
                   run_result, ret>>

\* how the remote command can end (_run_command_on_device)
RunOutcomes == {"exit0", "nonzero", "timeout", "exception"}
TimedOutText == "Command timed out"
ExceptionText == "error"

\* the (success, output) pair _run_command_on_device returns
RunReturn(outcome, ls) ==
    CASE outcome = "exit0" ->
            [ended |-> TRUE, outcome |-> outcome, success |-> TRUE,
             output |-> Join(ls)]
      [] outcome = "nonzero" ->
            [ended |-> TRUE, outcome |-> outcome, success |-> FALSE,
             output |-> Join(ls)]
      [] outcome = "timeout" ->
            [ended |-> TRUE, outcome |-> outcome, success |-> FALSE,
             output |-> TimedOutText]
      [] OTHER ->
            [ended |-> TRUE, outcome |-> outcome, success |-> FALSE,
             output |-> ExceptionText]

\* _run_command_on_device: one pass of the readline loop
ReadLine(c, line) ==
    /\ pc[c] = "run"
    /\ Len(output_lines[c]) < MaxLines
    /\ output_lines' = [output_lines EXCEPT ![c] = Append(@, line)]
    /\ UNCHANGED <<aux, now, active_traces, files, pc, req, output_file,
                   trace_id, run_result, ret>>

\* _run_command_on_device returns: end of stream and exit status, the
\* TimeoutExpired branch, or the outer exception handler
RunCommandEnds(c, outcome) ==
    /\ pc[c] = "run"
    /\ run_result' = [run_result EXCEPT ![c] =
            RunReturn(outcome, output_lines[c])]
    /\ pc' = [pc EXCEPT ![c] = "save"]
    /\ UNCHANGED <<aux, now, active_traces, files, req, output_file, trace_id,
                   output_lines, ret>>

\* with open(output_file, 'w') as f: f.write(output)
WriteOutcomes == {"ok", "io_error"}
FileAfterWrite(fs, path, output, io) ==
    IF io = "ok" THEN DictSet(fs, path, output) ELSE fs

\* execute_bpftrace: if output: write the file; an IOError leaves through
\* the except branch with the error dictionary
SaveOutput(c, io) ==
    /\ pc[c] = "save"
    /\ IF run_result[c].output = ""
         THEN /\ io = "ok"
              /\ files' = files
              /\ pc' = [pc EXCEPT ![c] = "upd_status"]
              /\ ret' = ret
         ELSE /\ files' = FileAfterWrite(files, output_file[c],
                                         run_result[c].output, io)
              /\ IF io = "ok"
                   THEN /\ pc' = [pc EXCEPT ![c] = "upd_status"]
                        /\ ret' = ret
                   ELSE /\ pc' = [pc EXCEPT ![c] = "done"]
                        /\ ret' = [ret EXCEPT ![c] =
                              ErrorDict(req[c], "IOError")]
    /\ UNCHANGED <<aux, now, active_traces, req, output_file, trace_id,
                   output_lines, run_result>>

\* a variant that treats a run without output as a failure
FinalStatusNeedsOutput(result) ==
    IF result.output = "" THEN "failed" ELSE "completed"

\* the status execute_bpftrace stores once the run has returned
FinalStatus(result) == "completed"

\* self.active_traces[trace_id]['status'] = 'completed'
UpdateStatus(c) ==
    /\ pc[c] = "upd_status"
    /\ active_traces' = DictSet(active_traces, trace_id[c],
            DictSet(active_traces[trace_id[c]], "status",
                    FinalStatus(run_result[c])))
    /\ pc' = [pc EXCEPT ![c] = "upd_end"]
    /\ UNCHANGED <<aux, now, files, req, output_file, trace_id, output_lines,
                   run_result, ret>>

\* self.active_traces[trace_id]['end_time'] = datetime.now().isoformat()
UpdateEndTime(c) ==
    /\ pc[c] = "upd_end"
    /\ active_traces' = DictSet(active_traces, trace_id[c],
            DictSet(active_traces[trace_id[c]], "end_time", now))
    /\ pc' = [pc EXCEPT ![c] = "upd_size"]
    /\ UNCHANGED <<aux, now, files, req, output_file, trace_id, output_lines,
                   run_result, ret>>

\* len(output.split('\n')): every line read ends with a newline
SplitCount(result, ls) ==
    IF result.outcome \in {"exit0", "nonzero"} THEN Len(ls) + 1 ELSE 1

\* self.active_traces[trace_id]['output_size'] = len(output); return {...}
UpdateOutputSize(c) ==
    /\ pc[c] = "upd_size"
    /\ active_traces' = DictSet(active_traces, trace_id[c],
            DictSet(active_traces[trace_id[c]], "output_size",
                    Len(run_result[c].output)))
    /\ ret' = [ret EXCEPT ![c] =
            [returned |-> TRUE, success |-> run_result[c].success,
             trace_id |-> trace_id[c], trace_name |-> TraceName(req[c]),
             device_id |-> req[c].device_id,
             output_file |-> output_file[c],
             output_lines |-> SplitCount(run_result[c], output_lines[c]),
             status |-> "completed"]]
    /\ pc' = [pc EXCEPT ![c] = "done"]
    /\ UNCHANGED <<aux, now, files, req, output_file, trace_id, output_lines,
                   run_result>>

Next ==
    \/ Tick
    \/ \E c \in Calls, r \in Requests, exists \in BOOLEAN :
            ExecuteWrapper(c, r, exists)
    \/ \E c \in Calls, r \in Requests : ExecuteCustom(c, r)
    \/ \E c \in Calls, exists \in BOOLEAN : CheckScript(c, exists)
    \/ \E c \in Calls, outcome \in PushOutcomes : PushScript(c, outcome)
    \/ \E c \in Calls : BuildCommand(c)
    \/ \E c \in Calls : StoreMetadata(c)
    \/ \E c \in Calls, line \in Lines : ReadLine(c, line)
    \/ \E c \in Calls, outcome \in RunOutcomes : RunCommandEnds(c, outcome)
    \/ \E c \in Calls, io \in WriteOutcomes : SaveOutput(c, io)
    \/ \E c \in Calls : UpdateStatus(c)
    \/ \E c \in Calls : UpdateEndTime(c)
    \/ \E c \in Calls : UpdateOutputSize(c)

Spec == Init /\ [][Next]_vars

\* ---------------------------------------------------------------- properties
\* a call has stored its metadata record
Registered(c) == trace_id[c] # ""
\* the record now stored under the id the call generated
RecordOf(c) == active_traces[trace_id[c]]
\* the call has executed the status update of its record
StatusUpdated(c) == pc[c] \in {"upd_end", "upd_size"}
                    \/ (pc[c] = "done" /\ "trace_id" \in DOMAIN ret[c])
\* the call returned the error dictionary with this message
ReturnedError(c, msg) ==
    /\ pc[c] = "done"
    /\ "error" \in DOMAIN ret[c]
    /\ ret[c].error = msg
\* a record of the store that describes the request of call c, in Failed
\* state with the given cause
HasFailedRecord(c, cause) ==
    \E rec \in list_active_traces :
        /\ rec.device_id = req[c].device_id
        /\ rec.trace_name = TraceName(req[c])
        /\ rec.status = "failed"
        /\ "cause" \in DOMAIN rec
        /\ rec.cause = cause

StatusSteps ==
    {<<"pending", "running">>, <<"running", "completed">>,
     <<"running", "failed">>, <<"running", "timed_out">>}

\* C1: the status of every session record only moves along
\* Pending -> Running -> {Completed, Failed, TimedOut}; a terminal status
\* never changes again.
C1_StatusPath ==
    [][\A id \in DOMAIN active_traces :
          /\ id \in DOMAIN active_traces'
          /\ active_traces'[id].status # active_traces[id].status
                => <<active_traces[id].status, active_traces'[id].status>>
                        \in StatusSteps]_vars

\* C2: a call whose script does not exist leaves a record in Failed state
\* with cause ScriptNotFound that list_active_traces returns, and the call
\* never registers a running session.
C2_ScriptNotFoundRecorded ==
    \A c \in Calls :
        (ReturnedError(c, "Script not found")
            \/ ReturnedError(c, "Trace script not found"))
        => /\ HasFailedRecord(c, "ScriptNotFound")
           /\ ~Registered(c)

\* C3: a call whose push failed leaves a record in Failed state with cause
\* PushFailed; the remote run is never started.
C3_PushFailedRecorded ==
    \A c \in Calls :
        ReturnedError(c, "Failed to push script to device")
        => /\ HasFailedRecord(c, "PushFailed")
           /\ ~run_result[c].ended
           /\ ~Registered(c)

\* C4: when the run of a session ended with Timeout, the status the session
\* moves to is TimedOut, never Completed or Failed.
C4_TimeoutIsTimedOut ==
    \A c \in Calls :
        (run_result[c].ended /\ run_result[c].outcome = "timeout"
            /\ StatusUpdated(c))
        => RecordOf(c).status = "timed_out"

\* C5: when the run ended with Timeout, the lines received before the expiry
\* are, in order, the content of the session's artifact.
C5_TimeoutKeepsPartialOutput ==
    \A c \in Calls :
        (run_result[c].ended /\ run_result[c].outcome = "timeout"
            /\ output_lines[c] # <<>> /\ pc[c] = "upd_status")
        => /\ output_file[c] \in DOMAIN files
           /\ files[output_file[c]] = Join(output_lines[c])

\* C6: when the remote command exited with a non-zero status, the status the
\* session moves to is Failed.
C6_NonZeroIsFailed ==
    \A c \in Calls :
        (run_result[c].ended /\ run_result[c].outcome = "nonzero"
            /\ StatusUpdated(c))
        => RecordOf(c).status = "failed"

\* C7: when the remote command exited with status zero and the output was
\* persisted, the status update of the session writes Completed.
C7_ZeroExitCompleted ==
    [][\A c \in Calls :
          (pc[c] = "upd_status" /\ pc'[c] = "upd_end"
              /\ run_result[c].outcome = "exit0")
          => active_traces'[trace_id[c]].status = "completed"]_vars

\* C7 witness: a call ran to its end with exit status zero, its output is in
\* its artifact and its record is Completed.
C7_Witness ==
    \E c \in Calls :
        /\ pc[c] = "done"
        /\ run_result[c].ended
        /\ run_result[c].outcome = "exit0"
        /\ output_lines[c] # <<>>
        /\ output_file[c] \in DOMAIN files
        /\ files[output_file[c]] = Join(output_lines[c])
        /\ RecordOf(c).status = "completed"

\* C8: when writing the artifact failed, the session record ends in Failed
\* status with a recorded cause.
C8_IOErrorRecorded ==
    \A c \in Calls :
        ReturnedError(c, "IOError")
        => /\ RecordOf(c).status = "failed"
           /\ "cause" \in DOMAIN RecordOf(c)

\* C9: two distinct sessions never have the same output file.
C9_OutputFileExclusive ==
    \A c1, c2 \in Calls :
        (c1 # c2 /\ output_file[c1] # "" /\ output_file[c2] # "")
        => output_file[c1] # output_file[c2]

\* C10: there is exactly one record per created session: no creation
\* replaces the record of another session.
C10_OneRecordPerSession ==
    Cardinality(DOMAIN active_traces)
        = Cardinality({c \in Calls : Registered(c)})

\* C11: in every state, a record has an end timestamp and a byte count
\* exactly when its status is terminal.
TerminalStatuses == {"completed", "failed", "timed_out"}
Finalised(rec) == "end_time" \in DOMAIN rec /\ "output_size" \in DOMAIN rec
C11_EndTimeIffTerminal ==
    \A id \in DOMAIN active_traces :
        (active_traces[id].status \in TerminalStatuses)
            <=> Finalised(active_traces[id])

\* ---------------------------------------------------------------- queries
\* (src/backend/app.py: the boundary layer reads the session table from its
\* own request threads while execute_* calls are in flight)

\* the ids a client can ask for: every id the orchestrator can issue, and
\* one it never issues
UnknownId == "nope"
QueryIds ==
    {TraceId(r.device_id, TraceName(r), t) : r \in Requests, t \in 0..MaxClock}
        \cup {UnknownId}

\* app.get_trace_result: 404 when the lookup is falsy, 500 when it raised
LookupStatus(result) ==
    IF result = KeyError THEN 500
    ELSE IF result = None THEN 404
    ELSE 200

\* GET /api/traces/<trace_id>
GetTraceResult(id) ==
    /\ query' = [op |-> "get_trace_result", trace_id |-> id,
                 result |-> get_trace_result(id), http |-> LookupStatus(get_trace_result(id))]
    /\ UNCHANGED <<exec, an, now, active_traces, files, pc, req, output_file,
                   trace_id, output_lines, run_result, ret>>

\* GET /api/traces
ListTraces ==
    /\ query' = [op |-> "list_active_traces", result |-> list_active_traces,
                 trace_count |-> Cardinality(DOMAIN active_traces),
                 http |-> 200]
    /\ UNCHANGED <<exec, an, now, active_traces, files, pc, req, output_file,
                   trace_id, output_lines, run_result, ret>>

\* the call that runs while the boundary layer queries
QueryCalls == {"c1"}

NextQuery ==
    \/ Tick
    \/ \E c \in QueryCalls, r \in Requests, exists \in BOOLEAN :
            ExecuteWrapper(c, r, exists)
    \/ \E c \in QueryCalls, r \in Requests : ExecuteCustom(c, r)
    \/ \E c \in QueryCalls, exists \in BOOLEAN : CheckScript(c, exists)
    \/ \E c \in QueryCalls, outcome \in PushOutcomes : PushScript(c, outcome)
    \/ \E c \in QueryCalls : BuildCommand(c)
    \/ \E c \in QueryCalls : StoreMetadata(c)
    \/ \E c \in QueryCalls, line \in Lines : ReadLine(c, line)
    \/ \E c \in QueryCalls, outcome \in RunOutcomes : RunCommandEnds(c, outcome)
    \/ \E c \in QueryCalls, io \in WriteOutcomes : SaveOutput(c, io)
    \/ \E c \in QueryCalls : UpdateStatus(c)
    \/ \E c \in QueryCalls : UpdateEndTime(c)
    \/ \E c \in QueryCalls : UpdateOutputSize(c)
    \/ \E id \in QueryIds : GetTraceResult(id)
    \/ ListTraces

SpecQuery == Init /\ [][NextQuery]_vars

\* the records a query handed to the boundary layer
Observed ==
    CASE query.op = "get_trace_result" ->
            IF query.http = 200 THEN {query.result} ELSE {}
      [] query.op = "list_active_traces" -> query.result
      [] OTHER -> {}

\* C13: a query never observes a record in the middle of its terminal
\* update: a record seen with a terminal status carries its end timestamp
\* and byte count.
C13_NoTornRead ==
    \A rec \in Observed :
        rec.status \in TerminalStatuses => Finalised(rec)

\* C14: a lookup of an id that was never issued answers None ("not found",
\* 404) without raising and leaves the session table unchanged.
C14_UnknownIdNotFound ==
    [][\A id \in QueryIds :
          (id \notin DOMAIN active_traces /\ query' # query
              /\ query'.op = "get_trace_result" /\ query'.trace_id = id)
          => /\ query'.result = None
             /\ query'.http = 404
             /\ active_traces' = active_traces]_vars

\* C14 witness: the table holds a record and a lookup of another id, never
\* issued, was answered "not found".
C14_Witness ==
    /\ query.op = "get_trace_result"
    /\ active_traces # <<>>
    /\ query.trace_id \notin DOMAIN active_traces
    /\ query.result = None
    /\ query.http = 404

\* ---------------------------------------------------------------- one run
\* _run_command_on_device against the clock: the remote process writes to
\* its stdout pipe, closes it and exits on its own schedule; the executor
\* sits in readline until end of stream and only then in
\* process.wait(timeout).  Time passes only while the executor is blocked.

\* the timeout argument (duration + 10) in clock units
HardTimeout == 2
\* how far the run is followed past the deadline
Overrun == 2

RunStarted ==
    [pc |-> "readline", elapsed |-> 0, stdout |-> "open", pending |-> 0,
     read |-> 0, exited |-> FALSE, killed |-> FALSE, wait_start |-> 0,
     outcome |-> "none"]

InitRun ==
    /\ Init
    /\ exec = NoExec

\* subprocess.Popen(full_cmd, stdout=PIPE, ...)
Popen ==
    /\ exec = NoExec
    /\ exec' = RunStarted
    /\ UNCHANGED <<query, an, now, active_traces, files, pc, req,
                   output_file, trace_id, output_lines, run_result, ret>>

\* the remote command prints a line
ProcWrite ==
    /\ exec.pc \in {"readline", "wait"}
    /\ exec.stdout = "open" /\ ~exec.exited /\ ~exec.killed
    /\ exec.pending + exec.read < MaxLines
    /\ exec' = [exec EXCEPT !.pending = @ + 1]
    /\ UNCHANGED <<query, an, now, active_traces, files, pc, req,
                   output_file, trace_id, output_lines, run_result, ret>>

\* the remote command closes its stdout and keeps running
ProcCloseStdout ==
    /\ exec.pc \in {"readline", "wait"}
    /\ exec.stdout = "open" /\ ~exec.exited /\ ~exec.killed
    /\ exec' = [exec EXCEPT !.stdout = "closed"]
    /\ UNCHANGED <<query, an, now, active_traces, files, pc, req,
                   output_file, trace_id, output_lines, run_result, ret>>

\* the remote command exits (its stdout closes with it)
ProcExit ==
    /\ exec.pc \in {"readline", "wait"}
    /\ ~exec.exited /\ ~exec.killed
    /\ exec' = [exec EXCEPT !.exited = TRUE, !.stdout = "closed"]
    /\ UNCHANGED <<query, an, now, active_traces, files, pc, req,
                   output_file, trace_id, output_lines, run_result, ret>>

\* readline returns a line: output_lines.append(line)
ReadlineReturnsLine ==
    /\ exec.pc = "readline"
    /\ exec.pending > 0
    /\ exec' = [exec EXCEPT !.pending = @ - 1, !.read = @ + 1]
    /\ UNCHANGED <<query, an, now, active_traces, files, pc, req,
                   output_file, trace_id, output_lines, run_result, ret>>

\* readline returns '' at end of stream: the loop ends, process.wait starts
ReadlineReturnsEOF ==
    /\ exec.pc = "readline"
    /\ exec.pending = 0 /\ exec.stdout = "closed"
    /\ exec' = [exec EXCEPT !.pc = "wait", !.wait_start = exec.elapsed]
    /\ UNCHANGED <<query, an, now, active_traces, files, pc, req,
                   output_file, trace_id, output_lines, run_result, ret>>

\* process.wait(timeout) returns: the process has exited
WaitReturns ==
    /\ exec.pc = "wait"
    /\ exec.exited
    /\ exec' = [exec EXCEPT !.pc = "returned", !.outcome = "exit"]
    /\ UNCHANGED <<query, an, now, active_traces, files, pc, req,
                   output_file, trace_id, output_lines, run_result, ret>>

\* the moment process.wait(timeout) raises TimeoutExpired
WaitExpired(e) == e.elapsed - e.wait_start >= HardTimeout

\* except subprocess.TimeoutExpired: process.kill(); return False, ...
WaitTimesOut ==
    /\ exec.pc = "wait"
    /\ ~exec.exited
    /\ WaitExpired(exec)
    /\ exec' = [exec EXCEPT !.pc = "returned", !.outcome = "timeout",
                            !.killed = TRUE]
    /\ UNCHANGED <<query, an, now, active_traces, files, pc, req,
                   output_file, trace_id, output_lines, run_result, ret>>

\* the executor can take a step now (it is not blocked in a system call)
ExecutorReady ==
    \/ exec.pc = "readline"
         /\ (exec.pending > 0 \/ exec.stdout = "closed")
    \/ exec.pc = "wait" /\ (exec.exited \/ WaitExpired(exec))

\* a clock unit passes while the executor is blocked
TimePasses ==
    /\ exec.pc \in {"readline", "wait"}
    /\ ~ExecutorReady
    /\ exec.elapsed < HardTimeout + Overrun
    /\ exec' = [exec EXCEPT !.elapsed = @ + 1]
    /\ UNCHANGED <<query, an, now, active_traces, files, pc, req,
                   output_file, trace_id, output_lines, run_result, ret>>

NextRun ==
    \/ Popen
    \/ ProcWrite
    \/ ProcCloseStdout
    \/ ProcExit
    \/ ReadlineReturnsLine
    \/ ReadlineReturnsEOF
    \/ WaitReturns
    \/ WaitTimesOut
    \/ TimePasses

SpecRun == InitRun /\ [][NextRun]_vars

\* C12: once duration + 10 has passed without the remote process exiting,
\* the executor has killed it and returned Timeout; it never stays blocked
\* past the deadline.
C12_HardTimeoutEnforced ==
    (exec.pc # "none" /\ exec.elapsed > HardTimeout /\ ~exec.exited)
        => (exec.pc = "returned" /\ exec.outcome = "timeout" /\ exec.killed)

\* ---------------------------------------------------------------- analysis
\* (src/backend/trace_data_manager.py, src/analyze_trace.py)
\* A trace file is a sequence of lines; an analysis request reads one file.

\* lines a trace file holds at most
MaxFileLines == 3

\* decoded JSON values: objects carry their fields, anything else its value
Obj(fields) == [type |-> "dict", fields |-> fields]
Num(n) == [type |-> "int", value |-> n]
IsDict(v) == v.type = "dict"
Has(e, k) == k \in DOMAIN e.fields
\* e.get(k, default)
Get(e, k, default) == IF Has(e, k) THEN e.fields[k] ELSE default

E1 == Obj([event |-> "open", pid |-> 1, comm |-> "a", timestamp |-> 100])
E2 == Obj([event |-> "open", pid |-> 2, comm |-> "b", timestamp |-> 105])
E3 == Obj([event |-> "open"])
E4 == Obj([pid |-> 1, comm |-> "a", timestamp |-> 103])
\* NumberComm stands for a comm that is the JSON number 7, not a string; it
\* is kept apart from every string value
NumberComm == "#7"
IsStr(v) == v # NumberComm
E5 == Obj([event |-> "close", pid |-> 1, comm |-> NumberComm])

\* the kinds of line: a record, whitespace only, text that is not JSON
\* (diagnostics, a truncated record), JSON that is not an object, and a line
\* on which decoding fails with something other than JSONDecodeError
\* (nesting beyond the recursion limit, bytes that are not valid text)
RecordLine(e) == [kind |-> "record", value |-> e]
BlankLine == [kind |-> "blank"]
TextLine == [kind |-> "text"]
ScalarLine == [kind |-> "scalar", value |-> Num(42)]
OverflowLine == [kind |-> "overflow"]
LineSet ==
    {RecordLine(e) : e \in {E1, E2, E3, E4, E5}}
        \cup {BlankLine, TextLine, ScalarLine, OverflowLine}

RECURSIVE SeqsUpTo(_, _)
SeqsUpTo(S, n) ==
    IF n = 0 THEN {<<>>}
    ELSE LET shorter == SeqsUpTo(S, n - 1)
         IN shorter \cup {Append(q, x) : q \in shorter, x \in S}
TraceFiles == SeqsUpTo(LineSet, MaxFileLines)

\* json.loads(line): the value, JSONDecodeError, or another exception
Decode(line) ==
    CASE line.kind \in {"record", "scalar"} ->
            [ok |-> TRUE, value |-> line.value]
      [] line.kind = "overflow" -> [ok |-> FALSE, error |-> "Exception"]
      [] OTHER -> [ok |-> FALSE, error |-> "JSONDecodeError"]

\* the for loop of parse_json_trace / _load_events: blank lines are skipped,
\* a JSONDecodeError is logged and skipped, any other exception leaves the
\* loop
RECURSIVE ReadLoop(_, _)
ReadLoop(lines, acc) ==
    IF lines = <<>> THEN acc
    ELSE LET line == Head(lines)
         IN IF line.kind = "blank" THEN ReadLoop(Tail(lines), acc)
            ELSE IF Decode(line).ok
              THEN ReadLoop(Tail(lines),
                     [acc EXCEPT !.events = Append(@, Decode(line).value)])
            ELSE IF Decode(line).error = "JSONDecodeError"
              THEN ReadLoop(Tail(lines),
                     [acc EXCEPT !.warnings = @ + 1])
            ELSE [acc EXCEPT !.raised = TRUE]
ReadLines(file) ==
    ReadLoop(file, [events |-> <<>>, warnings |-> 0, raised |-> FALSE])

\* parse_json_trace: the events; [] when the outer handler caught something
parse_json_trace(file) ==
    IF ReadLines(file).raised THEN <<>> ELSE ReadLines(file).events

\* what a caller gets: the returned value, or an exception
Returned(v) == [raised |-> FALSE, value |-> v]
Raised == [raised |-> TRUE]

\* TraceAnalyzer._load_events: only FileNotFoundError is handled
load_events(file) ==
    IF ReadLines(file).raised THEN Raised
    ELSE Returned(ReadLines(file).events)

\* calling .get on a decoded value that is not a dict raises AttributeError
AllDicts(events) == \A i \in 1..Len(events) : IsDict(events[i])

\* Python dicts keep insertion order: a dict is a sequence of entries
DictHas(d, k) == \E i \in 1..Len(d) : d[i].key = k
DictIndex(d, k) == CHOOSE i \in 1..Len(d) : d[i].key = k
DictKeys(d) == {d[i].key : i \in 1..Len(d)}

\* counts[k] += 1 on a defaultdict(int)
Increment(d, k) ==
    IF DictHas(d, k)
      THEN [d EXCEPT ![DictIndex(d, k)].val = @ + 1]
      ELSE Append(d, [key |-> k, val |-> 1])

\* aggregated[k].append(event) on a defaultdict(list)
AppendTo(d, k, e) ==
    IF DictHas(d, k)
      THEN [d EXCEPT ![DictIndex(d, k)].val = Append(@, e)]
      ELSE Append(d, [key |-> k, val |-> <<e>>])

\* a count that leaves out the events without an 'event' field
RECURSIVE CountTypedLoop(_, _)
CountTypedLoop(events, counts) ==
    IF events = <<>> THEN counts
    ELSE CountTypedLoop(Tail(events),
            IF Has(Head(events), "event")
              THEN Increment(counts, Head(events).fields.event)
              ELSE counts)
count_events_typed(events) ==
    IF AllDicts(events) THEN Returned(CountTypedLoop(events, <<>>)) ELSE Raised

\* count_events
RECURSIVE CountLoop(_, _)
CountLoop(events, counts) ==
    IF events = <<>> THEN counts
    ELSE CountLoop(Tail(events),
            Increment(counts, Get(Head(events), "event", "unknown")))
count_events(events) ==
    IF AllDicts(events) THEN Returned(CountLoop(events, <<>>)) ELSE Raised

\* aggregate_by_pid: events without a pid are left out
RECURSIVE ByPidLoop(_, _)
ByPidLoop(events, groups) ==
    IF events = <<>> THEN groups
    ELSE ByPidLoop(Tail(events),
            IF Has(Head(events), "pid")
              THEN AppendTo(groups, Head(events).fields.pid, Head(events))
              ELSE groups)

aggregate_by_pid(events) ==
    IF AllDicts(events) THEN Returned(ByPidLoop(events, <<>>)) ELSE Raised

\* aggregate_by_comm: events without a comm go under 'unknown'
RECURSIVE ByCommLoop(_, _)
ByCommLoop(events, groups) ==
    IF events = <<>> THEN groups
    ELSE ByCommLoop(Tail(events),
            AppendTo(groups, Get(Head(events), "comm", "unknown"),
                     Head(events)))
aggregate_by_comm(events) ==
    IF AllDicts(events) THEN Returned(ByCommLoop(events, <<>>)) ELSE Raised

\* len(evts) for every group, keys through str()
GroupSizes(groups) ==
    [i \in 1..Len(groups) |->
        [key |-> groups[i].key, val |-> Len(groups[i].val)]]
StrKeys(d) ==
    [i \in 1..Len(d) |-> [key |-> ToString(d[i].key), val |-> d[i].val]]

\* a descending sort that puts an entry before the entries of equal count
InsertByCountUnstable(sorted, x) ==
    LET k == Cardinality({i \in 1..Len(sorted) : sorted[i].count > x.count})
    IN SubSeq(sorted, 1, k) \o <<x>> \o SubSeq(sorted, k + 1, Len(sorted))

\* sorted(..., key=count, reverse=True): stable, largest count first
InsertByCount(sorted, x) ==
    LET k == Cardinality({i \in 1..Len(sorted) : sorted[i].count >= x.count})
    IN SubSeq(sorted, 1, k) \o <<x>> \o SubSeq(sorted, k + 1, Len(sorted))
RECURSIVE SortByCount(_, _)
SortByCount(items, sorted) ==
    IF items = <<>> THEN sorted
    ELSE SortByCount(Tail(items), InsertByCount(sorted, Head(items)))

TopN == 10
\* _get_top_processes
get_top_processes(events, top_n) ==
    LET by_comm == aggregate_by_comm(events).value
        items == [i \in 1..Len(by_comm) |->
                    [comm |-> by_comm[i].key, count |-> Len(by_comm[i].val)]]
        top == SortByCount(items, <<>>)
    IN SubSeq(top, 1, IF Len(top) < top_n THEN Len(top) ELSE top_n)

\* set(e.get(k) for e in events if k in e)
FieldValues(events, k) ==
    {events[i].fields[k] : i \in {j \in 1..Len(events) : Has(events[j], k)}}

TraceFilePath == "trace.json"
AttributeErrorText == "'int' object has no attribute 'get'"

\* summarize_trace: whatever is raised becomes {'error': ...}
summarize_trace(file) ==
    LET events == parse_json_trace(file)
    IN IF ~AllDicts(events) THEN [error |-> AttributeErrorText]
       ELSE [file |-> TraceFilePath,
             timestamp |-> now,
             total_events |-> Len(events),
             event_types |-> count_events(events).value,
             unique_pids |-> Cardinality(FieldValues(events, "pid")),
             unique_comms |-> Cardinality(FieldValues(events, "comm")),
             events_by_pid |->
                 StrKeys(GroupSizes(aggregate_by_pid(events).value)),
             top_processes |-> get_top_processes(events, TopN)]

\* get_trace_statistics: nothing is caught
get_trace_statistics(file) ==
    LET events == parse_json_trace(file)
        by_pid == aggregate_by_pid(events).value
        by_comm == aggregate_by_comm(events).value
    IN IF ~AllDicts(events) THEN Raised
       ELSE Returned(
            [total_events |-> Len(events),
             event_types |-> count_events(events).value,
             by_pid |->
                 [i \in 1..Len(by_pid) |->
                    [key |-> ToString(by_pid[i].key),
                     val |-> [count |-> Len(by_pid[i].val),
                              first_comm |->
                                  Get(by_pid[i].val[1], "comm", "unknown")]]],
             by_comm |->
                 [i \in 1..Len(by_comm) |->
                    [key |-> by_comm[i].key,
                     val |-> [count |-> Len(by_comm[i].val)]]]])

\* sorted(timestamps)
InsertAscending(sorted, x) ==
    LET k == Cardinality({i \in 1..Len(sorted) : sorted[i] <= x})
    IN SubSeq(sorted, 1, k) \o <<x>> \o SubSeq(sorted, k + 1, Len(sorted))
RECURSIVE Sorted(_, _)
Sorted(items, sorted) ==
    IF items = <<>> THEN sorted
    ELSE Sorted(Tail(items), InsertAscending(sorted, Head(items)))

\* the grouping loop of event_timeline: an absent timestamp is taken as 0
RECURSIVE TimelineLoop(_, _)
TimelineLoop(events, timeline) ==
    IF events = <<>> THEN timeline
    ELSE TimelineLoop(Tail(events),
            AppendTo(timeline, Get(Head(events), "event", "unknown"),
                     Get(Head(events), "timestamp", 0)))

RECURSIVE SumSeq(_)
SumSeq(q) == IF q = <<>> THEN 0 ELSE Head(q) + SumSeq(Tail(q))
SeqMin(q) == CHOOSE x \in {q[i] : i \in 1..Len(q)} :
                \A i \in 1..Len(q) : x <= q[i]
SeqMax(q) == CHOOSE x \in {q[i] : i \in 1..Len(q)} :
                \A i \in 1..Len(q) : x >= q[i]
\* statistics.mean(intervals) to two decimals, in hundredths
MeanHundredths(q) == (200 * SumSeq(q) + Len(q)) \div (2 * Len(q))

\* the lines written for one event type
TypeSection(stamps) ==
    LET timestamps == Sorted(stamps, <<>>)
        n == Len(timestamps)
        intervals == [i \in 1..(n - 1) |-> timestamps[i + 1] - timestamps[i]]
        base == [count |-> n,
                 first |-> timestamps[1],
                 last |-> timestamps[n],
                 range |-> timestamps[n] - timestamps[1]]
    IN IF n > 1
         THEN [avg_interval |-> MeanHundredths(intervals),
               min_interval |-> SeqMin(intervals),
               max_interval |-> SeqMax(intervals)] @@ base
         ELSE base

\* event_timeline on the events the analyzer loaded: nothing is written
\* when there are no events or the file cannot be written
event_timeline(events, io) ==
    IF events = <<>> THEN Returned([written |-> FALSE])
    ELSE IF ~AllDicts(events) THEN Raised
    ELSE IF io = "io_error" THEN Returned([written |-> FALSE])
    ELSE LET timeline == TimelineLoop(events, <<>>)
         IN Returned([written |-> TRUE,
                      sections |->
                          [t \in DictKeys(timeline) |->
                              TypeSection(timeline[DictIndex(timeline, t)].val)]])

\* ------------------------------------------------------ analysis requests
\* One request is made on the file; `an` keeps what it was given and what
\* came back.

InitAnalysis ==
    /\ an \in {[op |-> "input", file |-> f] : f \in TraceFiles}
    /\ now = 0
    /\ active_traces = <<>>
    /\ files = <<>>
    /\ pc = [c \in Calls |-> "idle"]
    /\ req = [c \in Calls |-> NoRequest]
    /\ output_file = [c \in Calls |-> ""]
    /\ trace_id = [c \in Calls |-> ""]
    /\ output_lines = [c \in Calls |-> <<>>]
    /\ run_result = [c \in Calls |-> NoRun]
    /\ ret = [c \in Calls |-> NoResult]
    /\ query = NoQuery
    /\ exec = NoExec

\* what `an` keeps of a finished request
Analysed(op, events, result) ==
    [op |-> op, file |-> an.file, events |-> events, result |-> result]

ParseJsonTrace ==
    /\ an.op = "input"
    /\ an' = Analysed("parse_json_trace", parse_json_trace(an.file),
                      [events |-> parse_json_trace(an.file),
                       warnings |-> ReadLines(an.file).warnings])
    /\ UNCHANGED <<query, exec, now, active_traces, files, pc, req,
                   output_file, trace_id, output_lines, run_result, ret>>

CountEvents ==
    /\ an.op = "input"
    /\ an' = Analysed("count_events", parse_json_trace(an.file),
                      count_events(parse_json_trace(an.file)))
    /\ UNCHANGED <<query, exec, now, active_traces, files, pc, req,
                   output_file, trace_id, output_lines, run_result, ret>>

AggregateByPid ==
    /\ an.op = "input"
    /\ an' = Analysed("aggregate_by_pid", parse_json_trace(an.file),
                      aggregate_by_pid(parse_json_trace(an.file)))
    /\ UNCHANGED <<query, exec, now, active_traces, files, pc, req,
                   output_file, trace_id, output_lines, run_result, ret>>

AggregateByComm ==
    /\ an.op = "input"
    /\ an' = Analysed("aggregate_by_comm", parse_json_trace(an.file),
                      aggregate_by_comm(parse_json_trace(an.file)))
    /\ UNCHANGED <<query, exec, now, active_traces, files, pc, req,
                   output_file, trace_id, output_lines, run_result, ret>>

SummarizeTrace ==
    /\ an.op = "input"
    /\ an' = Analysed("summarize_trace", parse_json_trace(an.file),
                      summarize_trace(an.file))
    /\ UNCHANGED <<query, exec, now, active_traces, files, pc, req,
                   output_file, trace_id, output_lines, run_result, ret>>

GetTraceStatistics ==
    /\ an.op = "input"
    /\ an' = Analysed("get_trace_statistics", parse_json_trace(an.file),
                      get_trace_statistics(an.file))
    /\ UNCHANGED <<query, exec, now, active_traces, files, pc, req,
                   output_file, trace_id, output_lines, run_result, ret>>

\* TraceAnalyzer(file).event_timeline(out): the constructor loads the events
EventTimeline(io) ==
    /\ an.op = "input"
    /\ an' = IF load_events(an.file).raised
               THEN Analysed("event_timeline", <<>>, Raised)
               ELSE Analysed("event_timeline", load_events(an.file).value,
                             event_timeline(load_events(an.file).value, io))
    /\ UNCHANGED <<query, exec, now, active_traces, files, pc, req,
                   output_file, trace_id, output_lines, run_result, ret>>

GetTopProcesses ==
    /\ an.op = "input"
    /\ an' = Analysed("get_top_processes", parse_json_trace(an.file),
                      IF AllDicts(parse_json_trace(an.file))
                        THEN Returned(get_top_processes(
                                 parse_json_trace(an.file), TopN))
                        ELSE Raised)
    /\ UNCHANGED <<query, exec, now, active_traces, files, pc, req,
                   output_file, trace_id, output_lines, run_result, ret>>

\* the keys of the events' fields in lexicographic order, which is the
\* order sorted() gives a list of str
KeyOrder == <<"comm", "event", "pid", "timestamp">>
LexRank(k) == CHOOSE i \in 1..Len(KeyOrder) : KeyOrder[i] = k

\* all_keys after the update loop of export_csv
AllKeys(events) ==
    UNION {DOMAIN events[i].fields : i \in 1..Len(events)}
\* list(all_keys): a set of str is iterated in an order that depends on the
\* hash seed of the process
ListOrders(S) ==
    {q \in [1..Cardinality(S) -> S] :
        \A i, j \in 1..Cardinality(S) : i # j => q[i] # q[j]}

\* insertion of the keys one by one, each behind the keys that are not
\* lexicographically larger
RECURSIVE SortLoop(_, _)
SortLoop(list, sorted) ==
    IF list = <<>> THEN sorted
    ELSE LET x == Head(list)
             k == Cardinality({i \in 1..Len(sorted) :
                                  LexRank(sorted[i]) <= LexRank(x)})
         IN SortLoop(Tail(list),
                SubSeq(sorted, 1, k) \o <<x>>
                    \o SubSeq(sorted, k + 1, Len(sorted)))

\* the key list left in the order the set was iterated
UnsortedKeys(list) == list

\* sorted(list(all_keys))
SortedKeys(list) == SortLoop(list, <<>>)

\* the text csv writes for a value: str() of a number, the string itself
NumberFields == {"pid", "timestamp"}
CsvText(k, v) ==
    IF k \in NumberFields THEN ToString(v)
    ELSE IF IsStr(v) THEN v ELSE "7"
\* DictWriter fills a missing column with restval ''
CsvRow(event, keys) ==
    [j \in 1..Len(keys) |->
        IF Has(event, keys[j]) THEN CsvText(keys[j], event.fields[keys[j]])
        ELSE ""]

\* export_csv on the events the analyzer loaded; order is the order in which
\* the key set is iterated
export_csv(events, order, io) ==
    IF events = <<>> THEN Returned([written |-> FALSE])
    ELSE IF ~AllDicts(events) THEN Raised
    ELSE IF io = "io_error" THEN Returned([written |-> FALSE])
    ELSE LET keys == SortedKeys(order)
         IN Returned([written |-> TRUE,
                      header |-> keys,
                      rows |-> [i \in 1..Len(events) |->
                                   CsvRow(events[i], keys)]])

\* every order in which a set of keys can be iterated
AllKeyOrders ==
    UNION {ListOrders(S) : S \in SUBSET {KeyOrder[i] : i \in 1..Len(KeyOrder)}}

\* TraceAnalyzer(file).export_csv(out)
ExportOrders(loaded) ==
    IF loaded.raised \/ ~AllDicts(loaded.value) THEN {<<>>}
    ELSE ListOrders(AllKeys(loaded.value))
ExportCsv(order, io) ==
    /\ an.op = "input"
    /\ order \in ExportOrders(load_events(an.file))
    /\ an' = IF load_events(an.file).raised
                THEN Analysed("export_csv", <<>>, Raised)
                ELSE Analysed("export_csv", load_events(an.file).value,
                              export_csv(load_events(an.file).value,
                                         order, io))
    /\ UNCHANGED <<query, exec, now, active_traces, files, pc, req,
                   output_file, trace_id, output_lines, run_result, ret>>

\* sub in s, for two strings
Contains(sub, s) ==
    \/ sub = ""
    \/ \E i \in 1..(Len(s) - Len(sub) + 1) :
          SubSeq(s, i, i + Len(sub) - 1) = sub

\* e.get(k) == v
FieldIs(e, k, v) == Has(e, k) /\ e.fields[k] = v
\* comm in e.get('comm', ''): TypeError when the value is not a string
CommTest(e, comm) ==
    IF ~Has(e, "comm") THEN Returned(comm = "")
    ELSE IF ~IsStr(e.fields.comm) THEN Raised
    ELSE Returned(Contains(comm, e.fields.comm))

\* [e for e in events if e.get(k) == v]
KeepEqual(events, k, v) ==
    IF ~AllDicts(events) THEN Raised
    ELSE Returned(SelectSeq(events, LAMBDA e : FieldIs(e, k, v)))
\* [e for e in events if comm in e.get('comm', '')]
KeepComm(events, comm) ==
    IF ~AllDicts(events) THEN Raised
    ELSE IF \E i \in 1..Len(events) : CommTest(events[i], comm).raised
      THEN Raised
    ELSE Returned(SelectSeq(events, LAMBDA e : CommTest(e, comm).value))

\* the criteria of a filter_events call: a criterion that is None is absent
FilterCriteria ==
    {[event_type |-> "open"], [pid |-> 1], [comm |-> "a"],
     [event_type |-> "close", comm |-> "a"], [pid |-> 2, comm |-> ""]}
Given(args, k) == k \in DOMAIN args

\* filter_events: the three tests one after the other
filter_events(events, args) ==
    LET by_type == IF Given(args, "event_type") /\ args.event_type # ""
                     THEN KeepEqual(events, "event", args.event_type)
                     ELSE Returned(events)
        by_pid == IF by_type.raised THEN Raised
                  ELSE IF Given(args, "pid")
                    THEN KeepEqual(by_type.value, "pid", args.pid)
                    ELSE by_type
        by_comm == IF by_pid.raised THEN Raised
                   ELSE IF Given(args, "comm") /\ args.comm # ""
                     THEN KeepComm(by_pid.value, args.comm)
                     ELSE by_pid
    IN by_comm

\* TraceAnalyzer.filter_by_event / filter_by_pid / filter_by_comm
filter_by_event(events, event_type) == KeepEqual(events, "event", event_type)
filter_by_pid(events, pid) == KeepEqual(events, "pid", pid)
filter_by_comm(events, comm) == KeepComm(events, comm)

FilterEvents(args) ==
    /\ an.op = "input"
    /\ an' = [args |-> args] @@
             Analysed("filter_events", parse_json_trace(an.file),
                      filter_events(parse_json_trace(an.file), args))
    /\ UNCHANGED <<query, exec, now, active_traces, files, pc, req,
                   output_file, trace_id, output_lines, run_result, ret>>

\* TraceAnalyzer(file).filter_by_*: the constructor loads the events
FilterBy(args) ==
    /\ an.op = "input"
    /\ Cardinality(DOMAIN args) = 1
    /\ an' = [args |-> args] @@
             (IF load_events(an.file).raised
                THEN Analysed("filter_by", <<>>, Raised)
                ELSE Analysed("filter_by", load_events(an.file).value,
                        CASE Given(args, "event_type") ->
                               filter_by_event(load_events(an.file).value,
                                               args.event_type)
                          [] Given(args, "pid") ->
                               filter_by_pid(load_events(an.file).value,
                                             args.pid)
                          [] OTHER ->
                               filter_by_comm(load_events(an.file).value,
                                              args.comm)))
    /\ UNCHANGED <<query, exec, now, active_traces, files, pc, req,
                   output_file, trace_id, output_lines, run_result, ret>>

NextAnalysis ==
    \/ ParseJsonTrace
    \/ CountEvents
    \/ AggregateByPid
    \/ AggregateByComm
    \/ SummarizeTrace
    \/ GetTraceStatistics
    \/ GetTopProcesses
    \/ \E io \in WriteOutcomes : EventTimeline(io)
    \/ \E io \in WriteOutcomes :
           \E order \in AllKeyOrders :
               ExportCsv(order, io)
    \/ \E args \in FilterCriteria : FilterEvents(args)
    \/ \E args \in FilterCriteria : FilterBy(args)

SpecAnalysis == InitAnalysis /\ [][NextAnalysis]_vars

\* ------------------------------------------------- properties of analysis

CountLines(file, kinds) ==
    Cardinality({i \in 1..Len(file) : file[i].kind \in kinds})
\* in TotalOf, d is a dict of counts
TotalOf(d) == SumSeq([i \in 1..Len(d) |-> d[i].val])
CountOf(d, k) == IF DictHas(d, k) THEN d[DictIndex(d, k)].val ELSE 0
GroupedEvents(groups) == SumSeq([i \in 1..Len(groups) |-> Len(groups[i].val)])
EventsLacking(events, k) ==
    Cardinality({i \in 1..Len(events) : ~Has(events[i], k)})

\* C15: parsing a file with N record lines and M malformed non-blank lines
\* (and no other kind of non-blank line) yields exactly N events and a
\* recorded count of exactly M decode failures; the warnings the parser logs
\* are taken as that record.
C15_ParseCounts ==
    (an.op = "parse_json_trace" /\ CountLines(an.file, {"scalar"}) = 0)
        => /\ Len(an.result.events) = CountLines(an.file, {"record"})
           /\ an.result.warnings = CountLines(an.file, {"text", "overflow"})

IsDecodable(line) == line.kind # "blank" /\ Decode(line).ok
DecodableValues(file) ==
    LET lines == SelectSeq(file, IsDecodable)
    IN [i \in 1..Len(lines) |-> lines[i].value]

\* C16: the parsed events are the decodable non-blank lines of the file, each
\* decoded on its own, in file order, wherever the malformed lines are.
C16_OrderPreserved ==
    an.op = "parse_json_trace" => an.result.events = DecodableValues(an.file)

\* C17: whatever the file holds, summarize_trace and get_trace_statistics
\* return analysis results, never an error or an exception.
C17_AnalysisNeverAborted ==
    /\ an.op = "summarize_trace" => "total_events" \in DOMAIN an.result
    /\ an.op = "get_trace_statistics" => ~an.result.raised

\* C18: the counts of count_events sum to the number of events, the events
\* without an 'event' field counted under 'unknown'; the same holds between
\* event_types and total_events of summarize_trace.
C18_CountsSumToTotal ==
    /\ (an.op = "count_events" /\ AllDicts(an.events))
         => /\ ~an.result.raised
            /\ TotalOf(an.result.value) = Len(an.events)
            /\ CountOf(an.result.value, "unknown")
                 = EventsLacking(an.events, "event")
    /\ (an.op = "summarize_trace" /\ "total_events" \in DOMAIN an.result)
         => TotalOf(an.result.event_types) = an.result.total_events

C18_Witness ==
    /\ an.op = "count_events"
    /\ AllDicts(an.events)
    /\ Len(an.events) = MaxFileLines
    /\ ~an.result.raised
    /\ CountOf(an.result.value, "unknown") >= 1
    /\ CountOf(an.result.value, "open") >= 1

\* C19: aggregate_by_pid and aggregate_by_comm put every event in a group, so
\* the group sizes sum to the number of events.
C19_GroupsCoverAll ==
    (an.op \in {"aggregate_by_pid", "aggregate_by_comm"}
        /\ AllDicts(an.events))
        => /\ ~an.result.raised
           /\ GroupedEvents(an.result.value) = Len(an.events)

Stamped(events, t) ==
    Cardinality({i \in 1..Len(events) :
                    /\ Get(events[i], "event", "unknown") = t
                    /\ Has(events[i], "timestamp")})

\* C20: event_timeline writes no interval statistics for an event type that
\* has at most one event with a timestamp.
C20_NoIntervalsForSingleStamp ==
    (an.op = "event_timeline" /\ ~an.result.raised
        /\ an.result.value.written)
        => \A t \in DOMAIN an.result.value.sections :
              Stamped(an.events, t) <= 1
                 => "avg_interval" \notin DOMAIN an.result.value.sections[t]

\* the timestamps carried by the events of type t, in event order
RECURSIVE StampsOf(_, _)
StampsOf(events, t) ==
    IF events = <<>> THEN <<>>
    ELSE IF Get(Head(events), "event", "unknown") = t
            /\ Has(Head(events), "timestamp")
      THEN <<Head(events).fields.timestamp>> \o StampsOf(Tail(events), t)
      ELSE StampsOf(Tail(events), t)
EventsOfType(events, t) ==
    Cardinality({i \in 1..Len(events) :
                    Get(events[i], "event", "unknown") = t})
IsAscending(q) == \A i \in 1..(Len(q) - 1) : q[i] <= q[i + 1]

\* C21: for an event type with at least two timestamped events, the timeline
\* gives count = events of the type, first and last = smallest and largest
\* timestamp, range = last - first, and mean/min/max over the adjacent
\* differences of the timestamps in ascending order, whatever the order of
\* the events.
C21_TimelineValues ==
    (an.op = "event_timeline" /\ ~an.result.raised
        /\ an.result.value.written)
        => \A t \in DOMAIN an.result.value.sections :
              Stamped(an.events, t) >= 2
                 => LET sec == an.result.value.sections[t]
                        stamps == StampsOf(an.events, t)
                        asc == CHOOSE q \in [1..Len(stamps) ->
                                   {stamps[i] : i \in 1..Len(stamps)}] :
                                  /\ IsAscending(q)
                                  /\ \A x \in {stamps[i] : i \in 1..Len(stamps)} :
                                        Cardinality({i \in 1..Len(q) : q[i] = x})
                                          = Cardinality({i \in 1..Len(stamps) :
                                                           stamps[i] = x})
                        gaps == [i \in 1..(Len(asc) - 1) |-> asc[i + 1] - asc[i]]
                    IN /\ sec.count = EventsOfType(an.events, t)
                       /\ sec.first = SeqMin(stamps)
                       /\ sec.last = SeqMax(stamps)
                       /\ sec.range = SeqMax(stamps) - SeqMin(stamps)
                       /\ "avg_interval" \in DOMAIN sec
                       /\ sec.avg_interval = MeanHundredths(gaps)
                       /\ sec.min_interval = SeqMin(gaps)
                       /\ sec.max_interval = SeqMax(gaps)

\* the place of the first event that carries this process name
FirstSeen(events, comm) ==
    CHOOSE i \in 1..Len(events) :
        /\ Get(events[i], "comm", "unknown") = comm
        /\ \A j \in 1..(i - 1) : Get(events[j], "comm", "unknown") # comm

\* C22: _get_top_processes lists the processes by non-increasing count, and
\* two processes of equal count in the order in which their names first
\* appear in the events.
C22_TopProcessesStable ==
    (an.op = "get_top_processes" /\ AllDicts(an.events))
        => /\ ~an.result.raised
           /\ LET top == an.result.value
              IN \A i, j \in 1..Len(top) :
                    i < j =>
                      /\ top[i].count >= top[j].count
                      /\ top[i].count = top[j].count
                           => FirstSeen(an.events, top[i].comm)
                                < FirstSeen(an.events, top[j].comm)

C22_Witness ==
    /\ an.op = "get_top_processes"
    /\ ~an.result.raised
    /\ Len(an.result.value) = MaxFileLines
    /\ an.result.value[1].count = an.result.value[2].count
    /\ an.result.value[1].comm = "b"

\* C23: export_csv writes as header the lexicographically sorted union of
\* the events' keys and one row per event with an empty value in every
\* column the event lacks, so another export of the same events writes the
\* same text, in whatever order the key set is iterated.
C23_ExportDeterministic ==
    (an.op = "export_csv" /\ ~an.result.raised /\ an.result.value.written)
        => LET out == an.result.value
           IN /\ {out.header[j] : j \in 1..Len(out.header)} = AllKeys(an.events)
              /\ \A j \in 1..(Len(out.header) - 1) :
                    LexRank(out.header[j]) < LexRank(out.header[j + 1])
              /\ Len(out.rows) = Len(an.events)
              /\ \A i \in 1..Len(out.rows) :
                    /\ Len(out.rows[i]) = Len(out.header)
                    /\ \A j \in 1..Len(out.header) :
                          ~Has(an.events[i], out.header[j])
                             <=> out.rows[i][j] = ""
              /\ \A again \in ListOrders(AllKeys(an.events)) :
                    export_csv(an.events, again, "ok") = an.result

C23_Witness ==
    /\ an.op = "export_csv"
    /\ ~an.result.raised
    /\ an.result.value.written
    /\ Len(an.result.value.header) = Len(KeyOrder)
    /\ Len(an.result.value.rows) >= 2
    /\ \E i \in 1..Len(an.result.value.rows) :
          an.result.value.rows[i][1] = ""

\* a dict as Python compares it: by its entries, not by their order
AsMap(d) == [k \in DictKeys(d) |-> d[DictIndex(d, k)].val]
\* the events in another order of production, as a file of records
Reordered(events, perm) ==
    [i \in 1..Len(events) |-> RecordLine(events[perm[i]])]
Reorderings(events) ==
    {Reordered(events, perm) : perm \in ListOrders(1..Len(events))}

\* the counts held by the two results
SummaryCounts(r) ==
    [total_events |-> r.total_events,
     event_types |-> AsMap(r.event_types),
     unique_pids |-> r.unique_pids,
     unique_comms |-> r.unique_comms,
     events_by_pid |-> AsMap(r.events_by_pid)]
PidCounts(by_pid) ==
    [k \in DictKeys(by_pid) |-> by_pid[DictIndex(by_pid, k)].val.count]
StatisticsCounts(r) ==
    [total_events |-> r.total_events,
     event_types |-> AsMap(r.event_types),
     by_pid |-> PidCounts(r.by_pid),
     by_comm |-> AsMap(r.by_comm)]

\* C24: summarize_trace and get_trace_statistics give the same
\* result (timestamp and file aside) for the same events in any order.
C24_PermutationInvariant ==
    /\ (an.op = "summarize_trace" /\ AllDicts(an.events))
         => \A file \in Reorderings(an.events) :
               /\ SummaryCounts(summarize_trace(file))
                    = SummaryCounts(an.result)
               /\ summarize_trace(file).top_processes
                    = an.result.top_processes
    /\ (an.op = "get_trace_statistics" /\ AllDicts(an.events))
         => \A file \in Reorderings(an.events) :
               /\ StatisticsCounts(get_trace_statistics(file).value)
                    = StatisticsCounts(an.result.value)
               /\ AsMap(get_trace_statistics(file).value.by_pid)
                    = AsMap(an.result.value.by_pid)

\* the event meets every criterion given: type equal, pid equal, the comm
\* (a string) containing the substring
Matches(e, args) ==
    /\ (Given(args, "event_type") /\ args.event_type # "")
          => FieldIs(e, "event", args.event_type)
    /\ Given(args, "pid") => FieldIs(e, "pid", args.pid)
    /\ (Given(args, "comm") /\ args.comm # "")
          => /\ Has(e, "comm")
             /\ IsStr(e.fields.comm)
             /\ Contains(args.comm, e.fields.comm)

\* C25: on events whose fields hold any scalar values, each filter returns
\* exactly the matching events in their original order and fails on none.
C25_FiltersExact ==
    (/\ an.op \in {"filter_events", "filter_by"}
     /\ an.op = "filter_by" => ~load_events(an.file).raised
     /\ AllDicts(an.events))
        => /\ ~an.result.raised
           /\ an.result.value
                = SelectSeq(an.events, LAMBDA e : Matches(e, an.args))

\* ------------------------------------------------ properties of a session

\* C26: once the execute_bpftrace call that registered a session has
\* returned, normally or through its exception handler, the session's record
\* has a terminal status.
C26_ReturnedSessionIsTerminal ==
    \A c \in Calls :
        (pc[c] = "done" /\ Registered(c))
            => RecordOf(c).status \in TerminalStatuses

====
